---- MODULE Spec2Model ----
(***************************************************************************)
(* Model of homework.py: the fitness-tracker calculation layer.            *)
(*                                                                         *)
(* Numbers.  Python ints and floats are modelled as exact rationals        *)
(* <<n, d>> in lowest terms with d > 0; the binary rounding error of       *)
(* floats is not modelled.  "/" on a zero divisor and "//" on a zero       *)
(* divisor raise ZeroDivisionError, as in Python.                          *)
(*                                                                         *)
(* Exceptions.  Every operation that can raise returns a record            *)
(* [exc |-> e, val |-> v]; e = NoExc means a normal return of v, otherwise *)
(* e is the exception raised and there is no val field.                    *)
(*                                                                         *)
(* Text.  The fixed Cyrillic fragments of InfoMessage.MESSAGE cannot be    *)
(* written in a TLA+ string; a rendered message is the sequence of its     *)
(* five substituted fields, each rendered as the format spec renders it.   *)
(***************************************************************************)
EXTENDS Integers, Sequences, FiniteSets, TLC

VARIABLES packages, idx, request, training, exc, infos, spent, stdout, pc

vars == <<packages, idx, request, training, exc, infos, spent, stdout, pc>>

(***************************************************************************)
(* Bounds of the model.                                                    *)
(***************************************************************************)
\* how many times the harness calls a method of one constructed object
MaxCalls == 3
\* how many records a batch holds at most
MaxBatch == 3

(***************************************************************************)
(* Exact rational arithmetic standing for Python's numeric operators.      *)
(* The helpers are functions, whose arguments TLC evaluates once, before   *)
(* the application.                                                        *)
(***************************************************************************)
Abs(n) == IF n < 0 THEN -n ELSE n

gcd[a \in Nat, b \in Nat] == IF b = 0 THEN a ELSE gcd[b, a % b]

divide[n \in Int, d \in Int, g \in Nat] == <<n \div g, d \div g>>

\* n/d in lowest terms, the denominator positive
norm[n \in Int, d \in Int] ==
    IF d < 0 THEN divide[-n, -d, gcd[Abs(n), Abs(d)]]
    ELSE divide[n, d, gcd[Abs(n), Abs(d)]]

Rationals == Int \X Int

Rat(k) == <<k, 1>>

IsZero(a) == a[1] = 0

add[a \in Rationals, b \in Rationals] ==
    norm[a[1] * b[2] + b[1] * a[2], a[2] * b[2]]

product[x \in Rationals, y \in Rationals] == norm[x[1] * y[1], x[2] * y[2]]

\* cross-reduced, so that the intermediate products stay small
mul[a \in Rationals, b \in Rationals] ==
    product[norm[a[1], b[2]], norm[b[1], a[2]]]

floor[a \in Rationals] == Rat(a[1] \div a[2])

\* a + b
Add(a, b) == add[a, b]

\* a - b
Sub(a, b) == add[a, mul[Rat(-1), b]]

\* a * b
Mul(a, b) == mul[a, b]

\* a / b for b # 0
Div(a, b) == mul[a, norm[b[2], b[1]]]

\* a ** 2
Square(a) == mul[a, a]

\* a // b for b # 0: the floor of the quotient
FloorDiv(a, b) == floor[Div(a, b)]

(***************************************************************************)
(* Exceptions and results.                                                 *)
(***************************************************************************)
NoExc == [type |-> "", msg |-> ""]

Exception(type, msg) == [type |-> type, msg |-> msg]

Return(v) == [exc |-> NoExc, val |-> v]

Raise(e) == [exc |-> e]

Raised(r) == r.exc # NoExc

ZeroDivisionError == Exception("ZeroDivisionError", "")

NotImplementedError == Exception("NotImplementedError", "")

TypeError == Exception("TypeError", "")

(***************************************************************************)
(* InfoMessage.                                                            *)
(***************************************************************************)
InfoMessage(training_type, duration, distance, speed, calories) ==
    [training_type |-> training_type, duration |-> duration,
     distance |-> distance, speed |-> speed, calories |-> calories]

\* round(|a| * 1000) to the nearest integer, ties to the even one
round[x \in Rationals] ==
    LET fl == x[1] \div x[2]
        r2 == 2 * (x[1] % x[2])
    IN  IF r2 > x[2] THEN fl + 1
        ELSE IF r2 = x[2] THEN fl + (fl % 2)
        ELSE fl

Millis(a) == round[mul[<<Abs(a[1]), a[2]>>, Rat(1000)]]

Pad3(k) ==
    IF k < 10 THEN "00" \o ToString(k)
    ELSE IF k < 100 THEN "0" \o ToString(k)
    ELSE ToString(k)

\* the format spec ":.3f"
Fixed3(negative, m) ==
    (IF negative THEN "-" ELSE "")
        \o ToString(m \div 1000) \o "." \o Pad3(m % 1000)

Format3f(a) == Fixed3(a[1] < 0, Millis(a))

get_message(self) ==
    <<self.training_type,
      Format3f(self.duration),
      Format3f(self.distance),
      Format3f(self.speed),
      Format3f(self.calories)>>

(***************************************************************************)
(* Training and its subclasses.  An object is a record of its class name   *)
(* and of exactly the attributes its __init__ assigns.                     *)
(***************************************************************************)
M_IN_KM == 1000

MIN_IN_HOUR == 60

MET_COEFF_RUN_1 == 18

MET_COEFF_RUN_2 == 20

MET_COEFF_WLK_1 == <<7, 200>>

MET_COEFF_WLK_2 == <<29, 1000>>

MET_COEFF_SWM_1 == <<11, 10>>

MET_COEFF_SWM_2 == 2

\* variant: Swimming does not override LEN_STEP
LEN_STEP_inherited(cls) == <<13, 20>>

\* the class attribute LEN_STEP as looked up on an instance of class cls
LEN_STEP(cls) == IF cls = "Swimming" THEN <<69, 50>> ELSE <<13, 20>>

Training_init(cls, action, duration, weight) ==
    [cls |-> cls, action |-> action, duration |-> duration, weight |-> weight]

SportsWalking_init(cls, action, duration, weight, height) ==
    Training_init(cls, action, duration, weight) @@ [height |-> height]

\* variant: the two pool attributes are assigned crosswise
Swimming_init_crossed(cls, action, duration, weight, length_pool, count_pool) ==
    Training_init(cls, action, duration, weight)
        @@ [length_pool |-> count_pool, count_pool |-> length_pool]

Swimming_init(cls, action, duration, weight, length_pool, count_pool) ==
    Training_init(cls, action, duration, weight)
        @@ [length_pool |-> length_pool, count_pool |-> count_pool]

get_distance(self) ==
    Div(Mul(self.action, LEN_STEP(self.cls)), Rat(M_IN_KM))

\* variant: a zero duration is guarded and gives speed 0
Training_get_mean_speed_guarded(self) ==
    IF IsZero(self.duration) THEN Return(Rat(0))
    ELSE Return(Div(get_distance(self), self.duration))

Training_get_mean_speed(self) ==
    IF IsZero(self.duration) THEN Raise(ZeroDivisionError)
    ELSE Return(Div(get_distance(self), self.duration))

\* variant: Swimming does not override get_mean_speed
Swimming_get_mean_speed_inherited(self) ==
    IF IsZero(self.duration) THEN Raise(ZeroDivisionError)
    ELSE Return(Div(get_distance(self), self.duration))

Swimming_get_mean_speed(self) ==
    IF IsZero(self.duration) THEN Raise(ZeroDivisionError)
    ELSE Return(Div(Div(Mul(self.length_pool, self.count_pool), Rat(M_IN_KM)),
                    self.duration))

get_mean_speed(self) ==
    IF self.cls = "Swimming" THEN Swimming_get_mean_speed(self)
    ELSE Training_get_mean_speed(self)

\* variant: the base method returns a number
Training_get_spent_calories_zero(self) == Return(Rat(0))

Training_get_spent_calories(self) == Raise(NotImplementedError)

\* variant: the second coefficient is added
Running_get_spent_calories_plus(self) ==
    LET speed == get_mean_speed(self) IN
    IF Raised(speed) THEN speed
    ELSE Return(Mul(Div(Mul(Add(Mul(Rat(MET_COEFF_RUN_1), speed.val),
                                Rat(MET_COEFF_RUN_2)),
                            self.weight),
                        Rat(M_IN_KM)),
                    Mul(self.duration, Rat(MIN_IN_HOUR))))

Running_get_spent_calories(self) ==
    LET speed == get_mean_speed(self) IN
    IF Raised(speed) THEN speed
    ELSE Return(Mul(Div(Mul(Sub(Mul(Rat(MET_COEFF_RUN_1), speed.val),
                                Rat(MET_COEFF_RUN_2)),
                            self.weight),
                        Rat(M_IN_KM)),
                    Mul(self.duration, Rat(MIN_IN_HOUR))))

\* variant: "/" in place of "//"
SportsWalking_get_spent_calories_truediv(self) ==
    LET speed == get_mean_speed(self) IN
    IF Raised(speed) THEN speed
    ELSE IF IsZero(self.height) THEN Raise(ZeroDivisionError)
    ELSE Return(Mul(Add(Mul(MET_COEFF_WLK_1, self.weight),
                        Mul(Mul(Div(Square(speed.val), self.height),
                                MET_COEFF_WLK_2),
                            self.weight)),
                    Mul(self.duration, Rat(MIN_IN_HOUR))))

SportsWalking_get_spent_calories(self) ==
    LET speed == get_mean_speed(self) IN
    IF Raised(speed) THEN speed
    ELSE IF IsZero(self.height) THEN Raise(ZeroDivisionError)
    ELSE Return(Mul(Add(Mul(MET_COEFF_WLK_1, self.weight),
                        Mul(Mul(FloorDiv(Square(speed.val), self.height),
                                MET_COEFF_WLK_2),
                            self.weight)),
                    Mul(self.duration, Rat(MIN_IN_HOUR))))

Swimming_get_spent_calories(self) ==
    LET speed == get_mean_speed(self) IN
    IF Raised(speed) THEN speed
    ELSE Return(Mul(Mul(Add(speed.val, MET_COEFF_SWM_1), Rat(MET_COEFF_SWM_2)),
                    self.weight))

get_spent_calories(self) ==
    CASE self.cls = "Running"       -> Running_get_spent_calories(self)
      [] self.cls = "SportsWalking" -> SportsWalking_get_spent_calories(self)
      [] self.cls = "Swimming"      -> Swimming_get_spent_calories(self)
      [] OTHER                      -> Training_get_spent_calories(self)

\* the object as a call leaves it, and what the call returned or raised
Outcome(self, r) == [self |-> self] @@ r

\* variant: the call resets the action counter once it has reported
show_training_info_consuming(self) ==
    LET speed    == get_mean_speed(self)
        calories == get_spent_calories(self)
    IN  Outcome([self EXCEPT !.action = Rat(0)],
            IF Raised(speed) THEN speed
            ELSE IF Raised(calories) THEN calories
            ELSE Return(InfoMessage(self.cls, self.duration,
                                    get_distance(self), speed.val,
                                    calories.val)))

\* The keyword arguments are evaluated in the order written; the first one
\* that raises ends the call.  No statement of the method assigns to self.
show_training_info(self) ==
    LET speed    == get_mean_speed(self)
        calories == get_spent_calories(self)
    IN  Outcome(self,
            IF Raised(speed) THEN speed
            ELSE IF Raised(calories) THEN calories
            ELSE Return(InfoMessage(self.cls, self.duration,
                                    get_distance(self), speed.val,
                                    calories.val)))

(***************************************************************************)
(* read_package.                                                           *)
(***************************************************************************)
\* variant: the entries in another order
activities_reordered ==
    <<<<"RUN", "Running">>, <<"WLK", "SportsWalking">>, <<"SWM", "Swimming">>>>

\* the dict literal, in insertion order: workout code, class
activities ==
    <<<<"SWM", "Swimming">>, <<"RUN", "Running">>, <<"WLK", "SportsWalking">>>>

keys(d) == [i \in 1..Len(d) |-> d[i][1]]

Contains(d, k) == \E i \in 1..Len(d) : d[i][1] = k

GetItem(d, k) == d[CHOOSE i \in 1..Len(d) : d[i][1] = k][2]

RECURSIVE join(_, _)
join(sep, s) ==
    IF Len(s) = 0 THEN ""
    ELSE IF Len(s) = 1 THEN s[1]
    ELSE s[1] \o sep \o join(sep, Tail(s))

\* cls(*data): Python binds the positional arguments to the parameters of
\* cls.__init__ and raises TypeError when their number differs.
New(cls, data) ==
    CASE cls = "SportsWalking" ->
            IF Len(data) # 4 THEN Raise(TypeError)
            ELSE Return(SportsWalking_init(cls, data[1], data[2], data[3],
                                           data[4]))
      [] cls = "Swimming" ->
            IF Len(data) # 5 THEN Raise(TypeError)
            ELSE Return(Swimming_init(cls, data[1], data[2], data[3],
                                      data[4], data[5]))
      [] OTHER ->
            IF Len(data) # 3 THEN Raise(TypeError)
            ELSE Return(Training_init(cls, data[1], data[2], data[3]))

ValueError(workout_type) ==
    Exception("ValueError",
              workout_type \o " is not a supported workout type "
                  \o "(try one of these: " \o join(", ", keys(activities))
                  \o ")")

read_package(workout_type, data) ==
    IF ~Contains(activities, workout_type)
    THEN Raise(ValueError(workout_type))
    ELSE New(GetItem(activities, workout_type), data)

(***************************************************************************)
(* Inputs.                                                                 *)
(***************************************************************************)
None == [cls |-> "None"]

NotCalled == [exc |-> Exception("NotCalled", "")]

Half == <<1, 2>>

\* the registered codes and two that are not
WorkoutTypes == {"SWM", "RUN", "WLK", "BIKE", "run"}

\* the values tried at each position of the argument list
Arg(i) ==
    CASE i = 1 -> {Rat(0), Rat(720), Rat(9000), Rat(15000)}
      [] i = 2 -> {Rat(0), Half, Rat(1), Rat(2)}
      [] i = 3 -> {Rat(75), Rat(80)}
      [] i = 4 -> {Rat(0), Rat(25), Rat(180)}
      [] i = 5 -> {Rat(2), Rat(40)}
      [] OTHER -> {Rat(1)}

RECURSIVE Lists(_)
Lists(n) ==
    IF n = 0 THEN {<<>>}
    ELSE {Append(d, a) : d \in Lists(n - 1), a \in Arg(n)}

\* argument lists of 2 to 6 values: every arity of the three constructors,
\* one below the least and one above the greatest
DataLists == UNION {Lists(n) : n \in 2..6}

(***************************************************************************)
(* The object-level harness: one object is constructed, by read_package or *)
(* by instantiating the base class, and its methods are then called, at    *)
(* most MaxCalls times in all.  An exception that reaches the harness ends *)
(* the run.                                                                *)
(***************************************************************************)
Init ==
    /\ packages = <<>>
    /\ idx = 0
    /\ request = [fn |-> ""]
    /\ training = None
    /\ exc = NoExc
    /\ infos = <<>>
    /\ spent = NotCalled
    /\ stdout = <<>>
    /\ pc = "start"

Calls == Len(infos) + Len(stdout) + (IF spent = NotCalled THEN 0 ELSE 1)

\* the harness binds what the constructing call `req` returned, or stops
Construct(req, r) ==
    /\ request' = req
    /\ IF Raised(r)
       THEN /\ exc' = r.exc
            /\ pc' = "failed"
            /\ UNCHANGED training
       ELSE /\ training' = r.val
            /\ pc' = "built"
            /\ UNCHANGED exc
    /\ UNCHANGED <<packages, idx, infos, spent, stdout>>

\* training = read_package(workout_type, data)
ReadPackage ==
    /\ pc = "start"
    /\ \E workout_type \in WorkoutTypes, data \in DataLists :
        Construct([fn |-> "read_package", workout_type |-> workout_type,
                   data |-> data],
                  read_package(workout_type, data))

\* training = Training(*data)
NewTraining ==
    /\ pc = "start"
    /\ \E data \in DataLists :
        Construct([fn |-> "Training", data |-> data], New("Training", data))

\* infos.append(training.show_training_info())
ShowTrainingInfo ==
    /\ pc = "built"
    /\ Calls < MaxCalls
    /\ \E r \in {show_training_info(training)} :
       /\ training' = r.self
       /\ IF Raised(r)
          THEN /\ exc' = r.exc
               /\ pc' = "failed"
               /\ UNCHANGED infos
          ELSE /\ infos' = Append(infos, r.val)
               /\ UNCHANGED <<exc, pc>>
    /\ UNCHANGED <<packages, idx, request, spent, stdout>>

\* spent = training.get_spent_calories()
GetSpentCalories ==
    /\ pc = "built"
    /\ spent = NotCalled
    /\ Calls < MaxCalls
    /\ \E r \in {get_spent_calories(training)} :
       IF Raised(r)
       THEN /\ exc' = r.exc
            /\ pc' = "failed"
            /\ UNCHANGED spent
       ELSE /\ spent' = r
            /\ UNCHANGED <<exc, pc>>
    /\ UNCHANGED <<packages, idx, request, training, infos, stdout>>

\* variant: a record whose report raises is skipped and the run goes on
main_isolated(at, to) ==
    /\ pc = at
    /\ \E r \in {show_training_info(training)} :
       /\ training' = r.self
       /\ IF Raised(r)
          THEN /\ exc' = r.exc
               /\ pc' = to
               /\ UNCHANGED stdout
          ELSE /\ stdout' = Append(stdout, get_message(r.val))
               /\ pc' = to
               /\ UNCHANGED exc
    /\ UNCHANGED <<packages, request, infos, spent>>

\* main(training), as a step of a run whose pc is `at`, leaving it at `to`
main(at, to) ==
    /\ pc = at
    /\ \E r \in {show_training_info(training)} :
       /\ training' = r.self
       /\ IF Raised(r)
          THEN /\ exc' = r.exc
               /\ pc' = "failed"
               /\ UNCHANGED stdout
          ELSE /\ stdout' = Append(stdout, get_message(r.val))
               /\ pc' = to
               /\ UNCHANGED exc
    /\ UNCHANGED <<packages, request, infos, spent>>

Main ==
    /\ Calls < MaxCalls
    /\ main("built", "built")
    /\ UNCHANGED idx

Next == ReadPackage \/ NewTraining \/ ShowTrainingInfo \/ GetSpentCalories \/ Main

Spec == Init /\ [][Next]_vars

(***************************************************************************)
(* The batch driver, the loop under __main__:                              *)
(*     for workout_type, data in packages:                                 *)
(*         training = read_package(workout_type, data)                     *)
(*         main(training)                                                  *)
(* packages[idx] is the record the loop is at; an exception that nothing   *)
(* catches ends the program.                                               *)
(***************************************************************************)
\* the records a batch is made of: the three of the source, an unregistered
\* code, a zero duration, a zero height and an argument too few
Records ==
    {<<"SWM", <<Rat(720), Rat(1), Rat(80), Rat(25), Rat(40)>>>>,
     <<"RUN", <<Rat(15000), Rat(1), Rat(75)>>>>,
     <<"WLK", <<Rat(9000), Rat(1), Rat(75), Rat(180)>>>>,
     <<"BIKE", <<Rat(15000), Rat(1), Rat(75)>>>>,
     <<"RUN", <<Rat(15000), Rat(0), Rat(75)>>>>,
     <<"WLK", <<Rat(9000), Rat(1), Rat(75), Rat(0)>>>>,
     <<"SWM", <<Rat(720), Rat(1), Rat(80), Rat(25)>>>>}

RECURSIVE Batches(_)
Batches(n) ==
    IF n = 0 THEN {<<>>}
    ELSE {Append(b, r) : b \in Batches(n - 1), r \in Records}

InitBatch ==
    /\ packages \in UNION {Batches(n) : n \in 0..MaxBatch}
    /\ idx = 1
    /\ request = [fn |-> ""]
    /\ training = None
    /\ exc = NoExc
    /\ infos = <<>>
    /\ spent = NotCalled
    /\ stdout = <<>>
    /\ pc = "for"

\* training = read_package(workout_type, data)
LoopReadPackage ==
    /\ pc = "for"
    /\ idx <= Len(packages)
    /\ \E r \in {read_package(packages[idx][1], packages[idx][2])} :
        /\ request' = [fn |-> "read_package",
                       workout_type |-> packages[idx][1],
                       data |-> packages[idx][2]]
        /\ IF Raised(r)
           THEN /\ exc' = r.exc
                /\ pc' = "failed"
                /\ UNCHANGED training
           ELSE /\ training' = r.val
                /\ pc' = "main"
                /\ UNCHANGED exc
    /\ UNCHANGED <<packages, idx, infos, spent, stdout>>

\* main(training), and on to the next record unless main raised
LoopMain ==
    /\ main("main", "for")
    /\ idx' = IF pc' = "for" THEN idx + 1 ELSE idx

\* the list is exhausted
LoopExit ==
    /\ pc = "for"
    /\ idx > Len(packages)
    /\ pc' = "done"
    /\ UNCHANGED <<packages, idx, request, training, exc, infos, spent, stdout>>

NextBatch == LoopReadPackage \/ LoopMain \/ LoopExit

SpecBatch == InitBatch /\ [][NextBatch]_vars

(***************************************************************************)
(* What the claims are stated with: the codes, classes and parameters as   *)
(* the specification gives them, and the run's observations.               *)
(***************************************************************************)
Registered == {"SWM", "RUN", "WLK"}

ExpectedClass(wt) ==
    CASE wt = "SWM" -> "Swimming"
      [] wt = "RUN" -> "Running"
      [] wt = "WLK" -> "SportsWalking"

ExpectedParams(wt) ==
    CASE wt = "SWM" -> <<"action", "duration", "weight", "length_pool",
                         "count_pool">>
      [] wt = "RUN" -> <<"action", "duration", "weight">>
      [] wt = "WLK" -> <<"action", "duration", "weight", "height">>

ViaReadPackage == request.fn = "read_package"

WellFormed(wt, d) == wt \in Registered /\ Len(d) = Len(ExpectedParams(wt))

Constructed == training.cls # "None"

Is(cls) == training.cls = cls

Inverse(a) == norm[a[2], a[1]]

\* C1: read_package returns an object if and only if the code is registered
\* and the argument list has the variant's parameter count; the object is of
\* the class registered for the code, has exactly the variant's attributes and
\* each holds the argument at its position; otherwise the call fails and no
\* object is returned.
C1_FactoryAllOrNothing ==
    ViaReadPackage =>
        IF WellFormed(request.workout_type, request.data)
        THEN /\ Constructed
             /\ training.cls = ExpectedClass(request.workout_type)
             /\ DOMAIN training =
                    {"cls"} \cup {ExpectedParams(request.workout_type)[i] :
                                     i \in 1..Len(request.data)}
             /\ \A i \in 1..Len(request.data) :
                    training[ExpectedParams(request.workout_type)[i]]
                        = request.data[i]
        ELSE /\ ~Constructed
             /\ pc = "failed"
             /\ exc.type \in {"ValueError", "TypeError"}

C1_Witness ==
    /\ ViaReadPackage
    /\ request.workout_type = "SWM"
    /\ Is("Swimming")
    /\ training.length_pool = Rat(25)
    /\ training.count_pool = Rat(40)

\* C2: for a code that is not registered, whatever the argument list,
\* read_package raises ValueError with a message that lists exactly SWM, RUN,
\* WLK in that order; no object is constructed and the error reaches the caller.
C2_UnsupportedType ==
    (ViaReadPackage /\ request.workout_type \notin Registered) =>
        /\ ~Constructed
        /\ pc = "failed"
        /\ exc.type = "ValueError"
        /\ exc.msg = request.workout_type
                \o " is not a supported workout type "
                \o "(try one of these: SWM, RUN, WLK)"

C2_Witness ==
    /\ ViaReadPackage
    /\ request.workout_type = "BIKE"
    /\ Len(request.data) = 3
    /\ pc = "failed"
    /\ exc.type = "ValueError"

\* what the claim of C3 gives for action a, duration t, weight w
RunningExpected(a, t, w) ==
    [training_type |-> "Running",
     duration |-> t,
     distance |-> mul[a, <<13, 20000>>],
     speed    |-> mul[mul[a, <<13, 20000>>], Inverse(t)],
     calories |-> mul[mul[add[mul[Rat(18),
                                  mul[mul[a, <<13, 20000>>], Inverse(t)]],
                              Rat(-20)],
                          mul[w, <<1, 1000>>]],
                      mul[t, Rat(60)]]]

RunningFormula ==
    (Is("Running") /\ ~IsZero(training.duration)) =>
        /\ pc # "failed"
        /\ \A i \in 1..Len(infos) :
               infos[i] = RunningExpected(training.action, training.duration,
                                          training.weight)

RunningExample ==
    /\ ViaReadPackage
    /\ request.workout_type = "RUN"
    /\ request.data = <<Rat(15000), Rat(1), Rat(75)>>

\* C3 as amended: for every RUN input with duration > 0 the report has
\* distance = action*0.65/1000, speed = distance/duration and
\* calories = ((18*speed - 20)*weight/1000)*(duration*60); RUN with
\* [15000, 1, 75] prints distance 9.750, speed 9.750 and calories 699.750.
C3_Running ==
    /\ RunningFormula
    /\ RunningExample =>
           \A i \in 1..Len(stdout) :
               stdout[i] = <<"Running", "1.000", "9.750", "9.750", "699.750">>

\* C3 as stated: the same, with calories 581.250 for RUN with [15000, 1, 75].
C3_AsStated ==
    /\ RunningFormula
    /\ RunningExample =>
           \A i \in 1..Len(stdout) :
               stdout[i] = <<"Running", "1.000", "9.750", "9.750", "581.250">>

C3_Witness ==
    /\ RunningExample
    /\ Len(infos) >= 1
    /\ Len(stdout) >= 1

\* the floor of the rational a, by the integer division of TLA+
Floor(a) == Rat(a[1] \div a[2])

WalkingSpeed(a, t) == mul[mul[a, <<13, 20000>>], Inverse(t)]

\* what the claim of C4 gives for action a, duration t, weight w, height h
WalkingCalories(a, t, w, h) ==
    mul[add[mul[<<35, 1000>>, w],
            mul[mul[Floor(mul[Square(WalkingSpeed(a, t)), Inverse(h)]),
                    <<29, 1000>>],
                w]],
        mul[t, Rat(60)]]

Positive(a) == a[1] > 0

\* speed^2 < height
SlowForHeight(t) ==
    Square(WalkingSpeed(t.action, t.duration))[1] * t.height[2]
        < t.height[1] * Square(WalkingSpeed(t.action, t.duration))[2]

WalkingExample ==
    /\ ViaReadPackage
    /\ request.workout_type = "WLK"
    /\ request.data = <<Rat(9000), Rat(1), Rat(75), Rat(180)>>

\* C4: for every WLK input with duration > 0 and height > 0 the calories are
\* (0.035*weight + floor(speed^2/height)*0.029*weight)*(duration*60) with
\* speed = action*0.65/1000/duration; when speed^2 < height they are
\* 0.035*weight*duration*60; WLK with [9000, 1, 75, 180] prints 157.500.
C4_WalkingFloor ==
    /\ (Is("SportsWalking") /\ Positive(training.duration)
            /\ Positive(training.height)) =>
        /\ pc # "failed"
        /\ \A i \in 1..Len(infos) :
            /\ infos[i].speed = WalkingSpeed(training.action, training.duration)
            /\ infos[i].calories =
                   WalkingCalories(training.action, training.duration,
                                   training.weight, training.height)
            /\ SlowForHeight(training) =>
                   infos[i].calories =
                       mul[mul[<<35, 1000>>, training.weight],
                           mul[training.duration, Rat(60)]]
    /\ WalkingExample =>
           \A i \in 1..Len(stdout) : stdout[i][5] = "157.500"

\* a walk whose speed^2/height is 2.1125: its floor is neither 0 nor the quotient
C4_Witness ==
    /\ Is("SportsWalking")
    /\ training.action = Rat(15000)
    /\ training.duration = Half
    /\ training.height = Rat(180)
    /\ Len(infos) >= 1
    /\ infos[1].calories = WalkingCalories(Rat(15000), Half, training.weight,
                                           Rat(180))

\* the report of the Swimming object t with its action count replaced by a
Sibling(t, a) == show_training_info([t EXCEPT !.action = a])

\* C5: two Swimming objects that agree on length_pool, count_pool, duration
\* and weight and differ in action report the same speed,
\* length_pool*count_pool/1000/duration, and the same calories,
\* (speed + 1.1)*2*weight; of the report's fields only the distance differs.
C5_SwimmingIgnoresAction ==
    Is("Swimming") =>
        \A i \in 1..Len(infos) :
            /\ infos[i].speed =
                   mul[mul[mul[training.length_pool, training.count_pool],
                           <<1, 1000>>],
                       Inverse(training.duration)]
            /\ infos[i].calories =
                   mul[mul[add[infos[i].speed, <<11, 10>>], Rat(2)],
                       training.weight]
            /\ \A a \in Arg(1) \ {training.action} :
                   /\ ~Raised(Sibling(training, a))
                   /\ Sibling(training, a).val.speed = infos[i].speed
                   /\ Sibling(training, a).val.calories = infos[i].calories
                   /\ Sibling(training, a).val.duration = infos[i].duration
                   /\ Sibling(training, a).val.training_type
                          = infos[i].training_type
                   /\ Sibling(training, a).val.distance # infos[i].distance

C5_Witness ==
    /\ Is("Swimming")
    /\ training.action = Rat(720)
    /\ training.length_pool = Rat(25)
    /\ training.count_pool = Rat(40)
    /\ Len(infos) >= 1

SwimmingExample ==
    /\ ViaReadPackage
    /\ request.workout_type = "SWM"
    /\ request.data = <<Rat(720), Rat(1), Rat(80), Rat(25), Rat(40)>>

\* C6 as amended: SWM with [720, 1, 80, 25, 40] prints duration 1.000,
\* distance 0.994 (720*1.38/1000 = 0.9936), speed 1.000 and calories 336.000,
\* and the run does not fail.
C6_SwimmingScenario ==
    SwimmingExample =>
        /\ pc # "failed"
        /\ \A i \in 1..Len(stdout) :
               stdout[i] = <<"Swimming", "1.000", "0.994", "1.000", "336.000">>

\* C6 as stated: the same, with distance 0.468.
C6_AsStated ==
    SwimmingExample =>
        /\ pc # "failed"
        /\ \A i \in 1..Len(stdout) :
               stdout[i] = <<"Swimming", "1.000", "0.468", "1.000", "336.000">>

C6_Witness ==
    /\ SwimmingExample
    /\ Len(stdout) >= 1

\* C7: all the records show_training_info returns for one object are equal
\* field by field, and no call of it (by the harness or by main) changes an
\* attribute of the object.
C7_ReportIdempotent ==
    /\ [](\A i, j \in 1..Len(infos) :
              \A f \in {"training_type", "duration", "distance", "speed",
                        "calories"} : infos[i][f] = infos[j][f])
    /\ [][Constructed => training' = training]_vars

C7_Witness ==
    /\ Constructed
    /\ Len(infos) >= 2

\* C8: get_spent_calories on a base Training object raises
\* NotImplementedError and returns nothing, whatever the attributes;
\* show_training_info on it fails and returns no record; on a Running,
\* SportsWalking or Swimming object no call raises NotImplementedError.
C8_BaseUnimplemented ==
    /\ [](Is("Training") => spent = NotCalled /\ infos = <<>> /\ stdout = <<>>)
    /\ []((Constructed /\ ~Is("Training")) =>
              exc.type # "NotImplementedError")
    /\ [][(Is("Training") /\ GetSpentCalories) =>
              (pc' = "failed" /\ exc' = NotImplementedError)]_vars
    /\ [][(Is("Training") /\ (ShowTrainingInfo \/ Main)) =>
              (pc' = "failed" /\ exc' # NoExc)]_vars

C8_Witness ==
    /\ Is("Training")
    /\ ~IsZero(training.duration)
    /\ pc = "failed"
    /\ exc = NotImplementedError

\* the object divides by zero when it reports
Degenerate(t) ==
    \/ IsZero(t.duration)
    \/ t.cls = "SportsWalking" /\ IsZero(t.height)

DegenerateInput(wt, d) ==
    /\ WellFormed(wt, d)
    /\ \/ IsZero(d[2])
       \/ wt = "WLK" /\ IsZero(d[4])

\* C9: read_package constructs the object of every variant whose duration is
\* 0, and a SportsWalking whose height is 0; every report of such an object
\* fails with ZeroDivisionError and yields no record.
C9_DegenerateInputs ==
    /\ []((ViaReadPackage
              /\ DegenerateInput(request.workout_type, request.data)) =>
             /\ Constructed
             /\ training.cls = ExpectedClass(request.workout_type)
             /\ Degenerate(training)
             /\ infos = <<>>
             /\ stdout = <<>>
             /\ spent = NotCalled
             /\ exc \in {NoExc, ZeroDivisionError})
    /\ [][(ViaReadPackage /\ Degenerate(training)
              /\ (ShowTrainingInfo \/ Main \/ GetSpentCalories)) =>
             (pc' = "failed" /\ exc' = ZeroDivisionError)]_vars

C9_Witness ==
    /\ ViaReadPackage
    /\ Is("SportsWalking")
    /\ IsZero(training.height)
    /\ ~IsZero(training.duration)
    /\ pc = "failed"
    /\ exc = ZeroDivisionError

\* what record k of the batch yields when it is processed alone
Built(k) == read_package(packages[k][1], packages[k][2])

Reported(k) == show_training_info(Built(k).val)

Succeeds(k) == ~Raised(Built(k)) /\ ~Raised(Reported(k))

LineOf(k) == get_message(Reported(k).val)

\* C10: the output is at every point one line for each record of a prefix of
\* the batch, in the batch's order; when record idx fails, the records before
\* it have their lines, neither it nor a later record has one and no further
\* step is taken; a run that ends without a failure has one line per record,
\* and a run that has neither failed nor ended can take a step.
C10_BatchInOrder ==
    /\ [](/\ Len(stdout) <= Len(packages)
          /\ \A k \in 1..Len(stdout) : Succeeds(k) /\ stdout[k] = LineOf(k)
          /\ pc \in {"for", "main", "failed"} => Len(stdout) = idx - 1
          /\ pc \in {"main", "failed"} => idx <= Len(packages)
          /\ pc = "failed" => ~Succeeds(idx)
          /\ pc = "done" => Len(stdout) = Len(packages)
          /\ pc \in {"done", "failed"} \/ ENABLED NextBatch)
    /\ [][pc # "failed" /\ pc # "done"]_vars
    /\ [][stdout' = stdout \/ stdout' = Append(stdout, LineOf(idx))]_vars

\* the second of three records fails: one line is out, two records are left
C10_Witness ==
    /\ Len(packages) = 3
    /\ pc = "failed"
    /\ idx = 2
    /\ Len(stdout) = 1
    /\ Succeeds(3)

====
